---- MODULE Spec2Model ----
(***************************************************************************)
(* Calendar utilities of @umituz/react-native-timezone.                     *)
(*                                                                         *)
(* Two classes build the 42-cell month grid: TimezoneService               *)
(* (infrastructure/services/TimezoneService.ts) and CalendarManager        *)
(* (index.ts).  Both lean on the host Date type, so the Date constructor   *)
(* (two-digit years, month and day roll-over), its getters and the string  *)
(* conversions used for the date key are modelled by what they do.         *)
(*                                                                         *)
(* A Date is a record [year, month, date, ms]: the local calendar fields   *)
(* getFullYear(), getMonth(), getDate() and the milliseconds since local   *)
(* midnight.  The model has no time zone: local time is the proleptic      *)
(* Gregorian calendar.                                                     *)
(***************************************************************************)
EXTENDS Integers, Sequences, FiniteSets, TLC

VARIABLES
    clock,   \* the wall clock: what `new Date()` returns
    ticks,   \* how many times the clock has passed midnight
    call,    \* the last call made: operation, receiver and arguments
    days,    \* the CalendarDay[] returned by the last getCalendarDays call
    same,    \* the boolean returned by the last isSameDay / isToday call
    arg,     \* the Date object handed to the last date helper, after the call
    ret,     \* the Date object the last date helper returned
    phrase   \* what the last formatRelativeTime call returned

vars == <<clock, ticks, call, days, same, arg, ret, phrase>>

-----------------------------------------------------------------------------
(* Bounds of the model.                                                    *)

\* Years FirstYear .. FirstYear + YearSpan are requested, next to the
\* special years of SpecialYears.
FirstYear == 2023
YearSpan == 2
\* Months -MonthSlack .. 11 + MonthSlack are requested.
MonthSlack == 2
\* The clock passes midnight at most MaxTicks times.
MaxTicks == 1

\* addDays is called with -MaxDelta .. MaxDelta days and with SpecialDeltas.
MaxDelta == 32

MsPerDay == 86400000

\* 99 and 100 sit on the two sides of the Date constructor's two-digit-year
\* rule; 1900 and 2100 are century years without a leap day, 2000 has one.
SpecialYears == {99, 100, 1900, 1999, 2000, 2100}
Years == SpecialYears \cup (FirstYear .. FirstYear + YearSpan)
Months == (0 - MonthSlack) .. (11 + MonthSlack)
\* A year and a leap year, back and forth.
SpecialDeltas == {-366, -365, 365, 366}
Deltas == ((0 - MaxDelta) .. MaxDelta) \cup SpecialDeltas

-----------------------------------------------------------------------------
(* The host Date type.                                                     *)

IsLeapYear(y) == (y % 4 = 0 /\ y % 100 # 0) \/ y % 400 = 0

\* Length of month m (0..11) of year y.
DaysInMonth(y, m) ==
    CASE m = 1 -> IF IsLeapYear(y) THEN 29 ELSE 28
      [] m \in {3, 5, 8, 10} -> 30
      [] OTHER -> 31

RECURSIVE DaysBeforeMonth(_, _)
DaysBeforeMonth(y, m) ==
    IF m = 0 THEN 0 ELSE DaysBeforeMonth(y, m - 1) + DaysInMonth(y, m - 1)

\* Day number of a calendar day, 0001-01-01 being day 1 (a Monday).
DayNumber(y, m, d) ==
    365 * (y - 1) + ((y - 1) \div 4) - ((y - 1) \div 100) + ((y - 1) \div 400)
        + DaysBeforeMonth(y, m) + d

\* Day roll-over of the Date constructor: a day below 1 or beyond the end
\* of the month moves into the adjacent months.
RECURSIVE RollDay(_, _, _, _)
RollDay(y, m, d, ms) ==
    IF d < 1
    THEN LET py == IF m = 0 THEN y - 1 ELSE y
             pm == IF m = 0 THEN 11 ELSE m - 1
         IN  RollDay(py, pm, d + DaysInMonth(py, pm), ms)
    ELSE IF d > DaysInMonth(y, m)
    THEN LET ny == IF m = 11 THEN y + 1 ELSE y
             nm == IF m = 11 THEN 0 ELSE m + 1
         IN  RollDay(ny, nm, d - DaysInMonth(y, m), ms)
    ELSE [year |-> y, month |-> m, date |-> d, ms |-> ms]

\* new Date(year, month, day): local midnight.  A year in 0..99 means
\* 1900 + year; the month rolls into adjacent years, then the day rolls.
NewDate(year, month, day) ==
    LET yr == IF year \in 0..99 THEN 1900 + year ELSE year
        ym == yr + (month \div 12)
        mn == month % 12
    IN  RollDay(ym, mn, day, 0)

\* Date.prototype.getDay(): 0 = Sunday .. 6 = Saturday.
GetDay(date) == DayNumber(date.year, date.month, date.date) % 7

\* Date.prototype.getTime(), counted from 0001-01-01T00:00 local: whole days
\* and the milliseconds of the last day, kept apart so that a time value
\* stays within 32-bit integers.
GetTime(date) ==
    [day |-> DayNumber(date.year, date.month, date.date), ms |-> date.ms]

\* Math.floor((a.getTime() - b.getTime()) / (1000 * 60 * 60 * 24))
FloorDays(a, b) ==
    (GetTime(a).day - GetTime(b).day)
        + ((GetTime(a).ms - GetTime(b).ms) \div MsPerDay)

\* Math.round((a.getTime() - b.getTime()) / (1000 * 60 * 60 * 24)): a half
\* rounds up.
RoundDays(a, b) ==
    (GetTime(a).day - GetTime(b).day)
        + ((2 * (GetTime(a).ms - GetTime(b).ms) + MsPerDay) \div (2 * MsPerDay))

\* Math.abs
Abs(n) == IF n < 0 THEN 0 - n ELSE n

\* Date.prototype.setDate(dayValue): the day rolls as in the constructor, the
\* year is taken as it is and the time of day is kept.
SetDate(date, dayValue) == RollDay(date.year, date.month, dayValue, date.ms)

\* Date.prototype.setHours(hours, min, sec, ms) within one day.
SetHours(date, hours, min, sec, ms) ==
    [date EXCEPT !.ms = ((hours * 60 + min) * 60 + sec) * 1000 + ms]

\* String(n) for a natural number n.
Digit == <<"0", "1", "2", "3", "4", "5", "6", "7", "8", "9">>
RECURSIVE StringOf(_)
StringOf(n) ==
    IF n < 10 THEN Digit[n + 1] ELSE StringOf(n \div 10) \o Digit[(n % 10) + 1]

\* `${n}` for an integer n.
Interpolated(n) == IF n < 0 THEN "-" \o StringOf(0 - n) ELSE StringOf(n)

\* s.padStart(2, '0')
PadStart2(s) == IF Len(s) >= 2 THEN s ELSE "0" \o s

-----------------------------------------------------------------------------
(* TimezoneService (infrastructure/services/TimezoneService.ts)            *)

isSameDay_NoMonth(date1, date2) ==
    /\ date1.year = date2.year
    /\ date1.date = date2.date

isSameDay(date1, date2) ==
    /\ date1.year = date2.year
    /\ date1.month = date2.month
    /\ date1.date = date2.date

isToday(date) == isSameDay(date, clock)

formatDateToString(date) ==
    LET year == date.year
        month == PadStart2(StringOf(date.month + 1))
        day == PadStart2(StringOf(date.date))
    IN  StringOf(year) \o "-" \o month \o "-" \o day

\* One pushed CalendarDay whose day, month and year are the loop's values.
PushedDay(date, day, month, year, isCurrentMonth, today) ==
    [date |-> date,
     day |-> day,
     dayOfWeek |-> GetDay(date),
     month |-> month,
     year |-> year,
     isCurrentMonth |-> isCurrentMonth,
     isToday |-> isSameDay(date, today),
     isoDate |-> formatDateToString(date)]

\* Last day of the month: day 0 of the month after.
lastDayOfMonth_PrevMonth(year, month) == NewDate(year, month, 0).date

lastDayOfMonth(year, month) ==
    LET lastDay == NewDate(year, month + 1, 0)
    IN  lastDay.date

\* 6 weeks * 7 days = 42
remainingDays_FiveWeeks(totalDays) == 35 - totalDays

remainingDays(totalDays) == 42 - totalDays

\* `now` is the value `new Date()` returns when line 120 runs.
getCalendarDays(year, month, now) ==
    LET firstDay == NewDate(year, month, 1)
        firstDayOfWeek == GetDay(firstDay)
        today == now
        prevMonth == IF month = 0 THEN 11 ELSE month - 1
        prevYear == IF month = 0 THEN year - 1 ELSE year
        prevMonthLastDay == NewDate(prevYear, prevMonth + 1, 0).date
        leading ==
            [k \in 1..firstDayOfWeek |->
                LET i == firstDayOfWeek - k
                    day == prevMonthLastDay - i
                IN  PushedDay(NewDate(prevYear, prevMonth, day), day,
                              prevMonth, prevYear, FALSE, today)]
        current ==
            [day \in 1..lastDayOfMonth(year, month) |->
                PushedDay(NewDate(year, month, day), day, month, year,
                          TRUE, today)]
        totalDays == Len(leading) + Len(current)
        nextMonth == IF month = 11 THEN 0 ELSE month + 1
        nextYear == IF month = 11 THEN year + 1 ELSE year
        trailing ==
            [day \in 1..remainingDays(totalDays) |->
                PushedDay(NewDate(nextYear, nextMonth, day), day, nextMonth,
                          nextYear, FALSE, today)]
    IN  leading \o current \o trailing

\* locale.startsWith('tr')
StartsWithTr(locale) == locale \in {"tr", "tr-TR"}

\* { ...defaultOptions, ...options }: the keys of options win, also when
\* their value is undefined.
Spread(defaultOptions, options) ==
    [k \in DOMAIN defaultOptions \cup DOMAIN options |->
        IF k \in DOMAIN options THEN options[k] ELSE defaultOptions[k]]

\* new Intl.DateTimeFormat(locale, options).format(date): the host's
\* formatting, kept as what it was asked to format.
IntlDateTimeFormat(locale, options, date) ==
    [kind |-> "date", locale |-> locale, options |-> options,
     date |-> <<date.year, date.month, date.date>>]

formatDate(date, locale, options) ==
    LET defaultOptions ==
            Spread([year |-> "numeric", month |-> "long", day |-> "numeric"],
                   options)
    IN  IntlDateTimeFormat(locale, defaultOptions, date)

\* One of the fixed phrasings (the Turkish ones are written in ASCII).
RelativeText(text) == [kind |-> "relative", text |-> text]

\* `now` is the value `new Date()` returns when line 276 runs.
formatRelativeTime(date, locale, now) ==
    LET diffInDays == FloorDays(now, date)
    IN  IF diffInDays = 0
        THEN RelativeText(IF StartsWithTr(locale) THEN "Bugun" ELSE "Today")
        ELSE IF diffInDays = 1
        THEN RelativeText(IF StartsWithTr(locale) THEN "Dun" ELSE "Yesterday")
        ELSE IF diffInDays < 7
        THEN RelativeText(IF StartsWithTr(locale)
                          THEN Interpolated(diffInDays) \o " gun once"
                          ELSE Interpolated(diffInDays) \o " days ago")
        ELSE formatDate(date, locale,
                        [month |-> "short", day |-> "numeric",
                         year |-> IF diffInDays > 365
                                  THEN "numeric" ELSE "undefined"])

\* The date helpers return the new Date next to the Date passed in as the
\* call leaves it: [result, date].

\* addDays working on the Date passed in instead of a copy.
addDays_InPlace(date, delta) ==
    LET result == SetDate(date, date.date + delta)
    IN  [result |-> result, date |-> result]

addDays(date, delta) ==
    LET copy == date
        result == SetDate(copy, copy.date + delta)
    IN  [result |-> result, date |-> date]

startOfDay(date) ==
    LET copy == date
        result == SetHours(copy, 0, 0, 0, 0)
    IN  [result |-> result, date |-> date]

\* endOfDay without the milliseconds.
endOfDay_NoMillis(date) ==
    LET copy == date
        result == SetHours(copy, 23, 59, 59, 0)
    IN  [result |-> result, date |-> date]

endOfDay(date) ==
    LET copy == date
        result == SetHours(copy, 23, 59, 59, 999)
    IN  [result |-> result, date |-> date]

-----------------------------------------------------------------------------
(* CalendarManager (index.ts)                                              *)

CM_isSameDay_Instant(d1, d2) ==
    /\ d1.year = d2.year
    /\ d1.month = d2.month
    /\ d1.date = d2.date
    /\ d1.ms = d2.ms

CM_isSameDay(d1, d2) ==
    /\ d1.year = d2.year
    /\ d1.month = d2.month
    /\ d1.date = d2.date

CM_isToday(date) == CM_isSameDay(date, clock)

\* DateFormatter.formatDateToString, the formatDateFn handed in.
DF_formatDateToString(date) ==
    LET y == date.year
        m == PadStart2(StringOf(date.month + 1))
        d == PadStart2(StringOf(date.date))
    IN  StringOf(y) \o "-" \o m \o "-" \o d

createDay(date, isCurrentMonth, today) ==
    [date |-> date,
     day |-> date.date,
     dayOfWeek |-> GetDay(date),
     month |-> date.month,
     year |-> date.year,
     isCurrentMonth |-> isCurrentMonth,
     isToday |-> CM_isSameDay(date, today),
     isoDate |-> DF_formatDateToString(date)]

CM_lastDayOfMonth(year, month) ==
    LET lastDay == NewDate(year, month + 1, 0)
    IN  lastDay.date

CM_remainingDays(length) == 42 - length

\* `now` is the value `new Date()` returns when line 321 runs.
CM_getCalendarDays(year, month, now) ==
    LET firstDay == NewDate(year, month, 1)
        firstDayOfWeek == GetDay(firstDay)
        today == now
        prevMonthDate == NewDate(year, month, 0)
        prevMonthLastDay == prevMonthDate.date
        prevMonth == prevMonthDate.month
        prevYear == prevMonthDate.year
        leading ==
            [k \in 1..firstDayOfWeek |->
                LET i == firstDayOfWeek - k
                    day == prevMonthLastDay - i
                IN  createDay(NewDate(prevYear, prevMonth, day), FALSE, today)]
        current ==
            [day \in 1..CM_lastDayOfMonth(year, month) |->
                createDay(NewDate(year, month, day), TRUE, today)]
        nextMonthDate == NewDate(year, month + 1, 1)
        nextMonth == nextMonthDate.month
        nextYear == nextMonthDate.year
        trailing ==
            [day \in 1..CM_remainingDays(Len(leading) + Len(current)) |->
                createDay(NewDate(nextYear, nextMonth, day), FALSE, today)]
    IN  leading \o current \o trailing

CM_addDays(date, delta) ==
    LET copy == date
        result == SetDate(copy, copy.date + delta)
    IN  [result |-> result, date |-> date]

CM_startOfDay(date) ==
    LET copy == date
        result == SetHours(copy, 0, 0, 0, 0)
    IN  [result |-> result, date |-> date]

CM_endOfDay(date) ==
    LET copy == date
        result == SetHours(copy, 23, 59, 59, 999)
    IN  [result |-> result, date |-> date]

-----------------------------------------------------------------------------
(* DateFormatter (infrastructure/services/DateFormatter.ts)                *)

DF_formatDate(date, locale, options) ==
    LET defaultOptions ==
            Spread([year |-> "numeric", month |-> "long", day |-> "numeric"],
                   options)
    IN  IntlDateTimeFormat(locale, defaultOptions, date)

\* new Intl.RelativeTimeFormat(locale, { numeric: 'auto' }).format(value,
\* 'day'): the host's phrasing, kept as what it was asked to phrase.
IntlRelativeTimeFormat(locale, value) ==
    [kind |-> "relative", locale |-> locale, value |-> value, unit |-> "day"]

\* `now` is the value `new Date()` returns when line 61 runs.
DF_formatRelativeTime(date, locale, now) ==
    LET diffInDays == RoundDays(date, now)
    IN  IF Abs(diffInDays) < 7
        THEN IntlRelativeTimeFormat(locale, diffInDays)
        ELSE DF_formatDate(date, locale,
                           [month |-> "short", day |-> "numeric",
                            year |-> IF Abs(diffInDays) > 365
                                     THEN "numeric" ELSE "undefined"])

-----------------------------------------------------------------------------
(* The calls a client makes.                                               *)

Impls == {"TimezoneService", "CalendarManager"}

At(y, m, d, ms) == [year |-> y, month |-> m, date |-> d, ms |-> ms]

\* Date-times handed to the date helpers.
SomeDates ==
    {At(2024, 2, 10, 86399000), At(2024, 2, 10, 1000), At(2024, 2, 11, 1000),
     At(2024, 3, 10, 1000), At(2023, 2, 10, 86399000), At(2024, 0, 15, 0),
     At(2024, 0, 16, 1000)}

\* Where the wall clock stands at start.
ClockStarts ==
    {At(2024, 0, 15, 86399000), At(2023, 11, 31, 86399000),
     At(2024, 1, 29, 43200000), At(2025, 0, 5, 1000),
     At(1999, 11, 31, 86399999), At(2024, 2, 10, 1000)}

NoDate == At(0, 0, 0, 0)

\* Date-times handed to addDays, startOfDay and endOfDay: month ends, leap
\* days, year ends, the last day of year 99.
HelperDates ==
    SomeDates \cup
    {At(2024, 1, 28, 43200000), At(2023, 1, 28, 86399999),
     At(2023, 11, 31, 0), At(1900, 1, 28, 1000), At(99, 11, 31, 86399000)}

\* The classes with a formatRelativeTime, the locales passed, and how far
\* from the clock's day, and at what time of day, the formatted date lies.
Formatters == {"TimezoneService", "DateFormatter"}
Locales == {"en-US", "tr-TR"}
DayOffsets == {-400, -366, -365, -8, -7, -6, -1, 0, 1, 6, 7, 8, 365, 366, 400}
TimesOfDay == {0, 43200000, 86399999}

NoCall ==
    [op |-> "none", impl |-> "none", year |-> 0, month |-> 0,
     today |-> NoDate, d1 |-> NoDate, d2 |-> NoDate, n |-> 0,
     locale |-> "none"]

NoPhrase == [kind |-> "none"]

Init ==
    /\ clock \in ClockStarts
    /\ ticks = 0
    /\ call = NoCall
    /\ days = <<>>
    /\ same = FALSE
    /\ arg = NoDate
    /\ ret = NoDate
    /\ phrase = NoPhrase

\* The wall clock passes midnight: one second into the next day.
Midnight(now) ==
    [RollDay(now.year, now.month, now.date + 1, 0) EXCEPT !.ms = 1000]

\* Time passes between two calls.
Tick ==
    /\ call.op = "none"
    /\ ticks < MaxTicks
    /\ clock' = Midnight(clock)
    /\ ticks' = ticks + 1
    /\ UNCHANGED <<call, days, same, arg, ret, phrase>>

\* A call of getCalendarDays; `crossing` says whether the wall clock passes
\* midnight while the grid is built, after `today` was read.
CallGetCalendarDays(impl, year, month, crossing) ==
    /\ call.op = "none"
    /\ crossing => ticks < MaxTicks
    /\ days' = IF impl = "TimezoneService"
               THEN getCalendarDays(year, month, clock)
               ELSE CM_getCalendarDays(year, month, clock)
    /\ call' = [NoCall EXCEPT !.op = "getCalendarDays", !.impl = impl,
                              !.year = year, !.month = month,
                              !.today = clock]
    /\ clock' = IF crossing THEN Midnight(clock) ELSE clock
    /\ ticks' = IF crossing THEN ticks + 1 ELSE ticks
    /\ same' = FALSE
    /\ UNCHANGED <<arg, ret, phrase>>

CallIsSameDay(impl, d1, d2) ==
    /\ call.op = "none"
    /\ same' = IF impl = "TimezoneService"
               THEN isSameDay(d1, d2)
               ELSE CM_isSameDay(d1, d2)
    /\ call' = [NoCall EXCEPT !.op = "isSameDay", !.impl = impl,
                              !.d1 = d1, !.d2 = d2]
    /\ days' = <<>>
    /\ UNCHANGED <<clock, ticks, arg, ret, phrase>>

CallIsToday(impl, d) ==
    /\ call.op = "none"
    /\ same' = IF impl = "TimezoneService" THEN isToday(d) ELSE CM_isToday(d)
    /\ call' = [NoCall EXCEPT !.op = "isToday", !.impl = impl, !.d1 = d,
                              !.today = clock]
    /\ days' = <<>>
    /\ UNCHANGED <<clock, ticks, arg, ret, phrase>>

CallAddDays(impl, date, n) ==
    /\ call.op = "none"
    /\ LET out == IF impl = "TimezoneService"
                  THEN addDays(date, n)
                  ELSE CM_addDays(date, n)
       IN  /\ ret' = out.result
           /\ arg' = out.date
    /\ call' = [NoCall EXCEPT !.op = "addDays", !.impl = impl, !.d1 = date,
                              !.n = n]
    /\ UNCHANGED <<clock, ticks, days, same, phrase>>

CallStartOfDay(impl, date) ==
    /\ call.op = "none"
    /\ LET out == IF impl = "TimezoneService"
                  THEN startOfDay(date)
                  ELSE CM_startOfDay(date)
       IN  /\ ret' = out.result
           /\ arg' = out.date
    /\ call' = [NoCall EXCEPT !.op = "startOfDay", !.impl = impl, !.d1 = date]
    /\ UNCHANGED <<clock, ticks, days, same, phrase>>

CallEndOfDay(impl, date) ==
    /\ call.op = "none"
    /\ LET out == IF impl = "TimezoneService"
                  THEN endOfDay(date)
                  ELSE CM_endOfDay(date)
       IN  /\ ret' = out.result
           /\ arg' = out.date
    /\ call' = [NoCall EXCEPT !.op = "endOfDay", !.impl = impl, !.d1 = date]
    /\ UNCHANGED <<clock, ticks, days, same, phrase>>

\* formatRelativeTime of a date `offset` days from the clock's day, at time
\* of day `ms`.
CallFormatRelativeTime(impl, offset, ms, locale) ==
    /\ call.op = "none"
    /\ LET date == RollDay(clock.year, clock.month, clock.date + offset, ms)
       IN  /\ phrase' = IF impl = "TimezoneService"
                         THEN formatRelativeTime(date, locale, clock)
                         ELSE DF_formatRelativeTime(date, locale, clock)
           /\ call' = [NoCall EXCEPT !.op = "formatRelativeTime",
                                     !.impl = impl, !.d1 = date,
                                     !.today = clock, !.locale = locale]
    /\ UNCHANGED <<clock, ticks, days, same, arg, ret>>

\* The caller drops the returned value; the library keeps nothing.
Return ==
    /\ call.op # "none"
    /\ call' = NoCall
    /\ days' = <<>>
    /\ same' = FALSE
    /\ arg' = NoDate
    /\ ret' = NoDate
    /\ phrase' = NoPhrase
    /\ UNCHANGED <<clock, ticks>>

Next ==
    \/ Tick
    \/ \E impl \in Impls, year \in Years, month \in Months, crossing \in BOOLEAN :
          CallGetCalendarDays(impl, year, month, crossing)
    \/ \E impl \in Impls, d1 \in SomeDates, d2 \in SomeDates :
          CallIsSameDay(impl, d1, d2)
    \/ \E impl \in Impls, d \in SomeDates \cup {clock} : CallIsToday(impl, d)
    \/ \E impl \in Impls, date \in HelperDates, n \in Deltas :
          CallAddDays(impl, date, n)
    \/ \E impl \in Impls, date \in HelperDates : CallStartOfDay(impl, date)
    \/ \E impl \in Impls, date \in HelperDates : CallEndOfDay(impl, date)
    \/ \E impl \in Formatters, offset \in DayOffsets, ms \in TimesOfDay,
          locale \in Locales :
          CallFormatRelativeTime(impl, offset, ms, locale)
    \/ Return

Spec == Init /\ [][Next]_vars

-----------------------------------------------------------------------------
(* Calendar facts the properties are stated with; none is used by the      *)
(* operations above.                                                       *)

IsGrid == call.op = "getCalendarDays"
MonthInRange == call.month \in 0..11

\* The calendar day of a Date, without its time of day.
CalendarDayOf(date) == <<date.year, date.month, date.date>>

\* The calendar day after a Date's.
Tomorrow(date) ==
    IF date.date < DaysInMonth(date.year, date.month)
    THEN <<date.year, date.month, date.date + 1>>
    ELSE IF date.month < 11
    THEN <<date.year, date.month + 1, 1>>
    ELSE <<date.year + 1, 0, 1>>

\* The requested month: the month of the Date made of the year and month
\* passed in.
Requested == NewDate(call.year, call.month, 1)
RequestedLength == DaysInMonth(Requested.year, Requested.month)
RequestedWeekday == GetDay(Requested)

\* Positions of the entries flagged isCurrentMonth / isToday.
CurrentRun == {i \in 1..Len(days) : days[i].isCurrentMonth}
TodayFlags == {i \in 1..Len(days) : days[i].isToday}

-----------------------------------------------------------------------------
(* Properties.                                                             *)

\* C1: for every year and every month in 0..11 getCalendarDays returns
\* exactly 42 entries, and the trailing-filler count
\* 42 - leading - daysInMonth is never negative.
C1_FixedLength ==
    IsGrid /\ MonthInRange =>
        /\ Len(days) = 42
        /\ 42 - RequestedWeekday - RequestedLength >= 0

\* A 31-day month whose 1st is a Saturday: 6 + 31 entries, 5 trailing.
C1_Witness ==
    /\ IsGrid /\ MonthInRange
    /\ RequestedWeekday = 6 /\ RequestedLength = 31
    /\ Len(days) = 42

\* C2: in every grid the date of each entry is exactly one calendar day
\* after the date of the entry before it.
C2_ConsecutiveDays ==
    IsGrid =>
        \A i \in 1..(Len(days) - 1) :
            CalendarDayOf(days[i + 1].date) = Tomorrow(days[i].date)

\* C3: the entries with isCurrentMonth form one contiguous run, as long as
\* the requested month, holding its days 1..daysInMonth in order; all other
\* entries have isCurrentMonth = FALSE.
C3_CurrentMonthRun ==
    IsGrid /\ MonthInRange =>
        /\ Cardinality(CurrentRun) = RequestedLength
        /\ \E s \in 0..(Len(days) - RequestedLength) :
              /\ CurrentRun = (s + 1)..(s + RequestedLength)
              /\ \A j \in 1..RequestedLength :
                    /\ days[s + j].day = j
                    /\ CalendarDayOf(days[s + j].date)
                          = <<Requested.year, Requested.month, j>>

\* February of a leap year: a run of 29.
C3_Witness ==
    /\ IsGrid /\ call.month = 1 /\ IsLeapYear(call.year)
    /\ Cardinality(CurrentRun) = 29

\* C4: at most one entry has isToday, and an entry has isToday iff the
\* calendar day of its date is the calendar day of `now`, the one value read
\* when the call started, also when the clock passes midnight during the
\* call.
C4_AtMostOneToday ==
    IsGrid =>
        /\ Cardinality(TodayFlags) <= 1
        /\ \A i \in 1..Len(days) :
              days[i].isToday
                  <=> CalendarDayOf(days[i].date) = CalendarDayOf(call.today)

\* The clock passed midnight during the call: the flagged entry is the day
\* the call started on, and the entry after it, the clock's day at return,
\* is not flagged.
C4_Witness ==
    /\ IsGrid
    /\ CalendarDayOf(clock) # CalendarDayOf(call.today)
    /\ \E i \in 1..(Len(days) - 1) :
          /\ TodayFlags = {i}
          /\ CalendarDayOf(days[i + 1].date) = CalendarDayOf(clock)

\* C5: for every year, the trailing filler of month 11 has year + 1 and
\* month 0, the leading filler of month 0 has year - 1 and month 11, and for
\* the months 1..10 the filler has the same year and month - 1 / month + 1.
C5_FillerMonthYear ==
    IsGrid /\ MonthInRange =>
        \A i \in 1..Len(days) :
            LET leading == \A j \in CurrentRun : i < j
                trailing == \A j \in CurrentRun : i > j
                e == days[i]
            IN  /\ (call.month = 11 /\ trailing) =>
                      e.year = call.year + 1 /\ e.month = 0
                /\ (call.month = 0 /\ leading) =>
                      e.year = call.year - 1 /\ e.month = 11
                /\ (call.month \in 1..10 /\ leading) =>
                      e.year = call.year /\ e.month = call.month - 1
                /\ (call.month \in 1..10 /\ trailing) =>
                      e.year = call.year /\ e.month = call.month + 1

\* The grid the called class builds.
GridOf(impl, year, month, now) ==
    IF impl = "TimezoneService"
    THEN getCalendarDays(year, month, now)
    ELSE CM_getCalendarDays(year, month, now)

\* C6: for a month outside 0..11 getCalendarDays returns, field for field,
\* the 42 entries it returns for the normalized (year, month): month 12 of
\* year Y is January of Y + 1, month -1 is December of Y - 1.
C6_OutOfRangeMonthNormalized ==
    IsGrid /\ ~MonthInRange =>
        days = GridOf(call.impl, call.year + (call.month \div 12),
                      call.month % 12, call.today)

\* n in decimal, zero-padded to `width` digits.
RECURSIVE ZeroPadded(_, _)
ZeroPadded(n, width) ==
    IF width = 0 THEN "" ELSE ZeroPadded(n \div 10, width - 1) \o Digit[(n % 10) + 1]

\* C7: in every grid, for any year and month, each entry's day (1..31),
\* month (0..11) and year are the day-of-month, month and year of its own
\* date, and its isoDate is the zero-padded YYYY-MM-DD of those three.
C7_EntrySelfConsistent ==
    IsGrid =>
        \A i \in 1..Len(days) :
            LET e == days[i]
            IN  /\ e.day = e.date.date /\ e.day \in 1..31
                /\ e.month = e.date.month /\ e.month \in 0..11
                /\ e.year = e.date.year
                /\ e.isoDate = ZeroPadded(e.year, 4) \o "-"
                                 \o ZeroPadded(e.month + 1, 2) \o "-"
                                 \o ZeroPadded(e.day, 2)

\* C8: isSameDay(d1, d2) is true iff d1 and d2 have equal year, month and
\* day-of-month, whatever their times of day, and isToday(d) is
\* isSameDay(d, now).
C8_SameDay ==
    /\ call.op = "isSameDay" =>
          (same <=> CalendarDayOf(call.d1) = CalendarDayOf(call.d2))
    /\ call.op = "isToday" =>
          (same <=> CalendarDayOf(call.d1) = CalendarDayOf(call.today))

\* 23:59:59 and 00:00:01 of one day are the same day.
C8_Witness ==
    /\ call.op = "isSameDay"
    /\ call.d1.ms = 86399000 /\ call.d2.ms = 1000
    /\ CalendarDayOf(call.d1) = CalendarDayOf(call.d2)
    /\ same

\* The last day of the month before the requested one, and the first day of
\* the month after it.
BeforeRequested ==
    IF Requested.month = 0
    THEN <<Requested.year - 1, 11, 31>>
    ELSE <<Requested.year, Requested.month - 1,
           DaysInMonth(Requested.year, Requested.month - 1)>>
AfterRequested ==
    IF Requested.month = 11
    THEN <<Requested.year + 1, 0>>
    ELSE <<Requested.year, Requested.month + 1>>

\* C10: for every year and month in 0..11 there are as many leading filler
\* entries as the weekday (0 = Sunday) of the 1st, and they are the last
\* days of the previous month in ascending order; the trailing filler
\* entries are days 1..(42 - leading - daysInMonth) of the next month.
C10_FillerCounts ==
    IsGrid /\ MonthInRange =>
        LET lead == RequestedWeekday
            rest == 42 - lead - RequestedLength
        IN  /\ Len(days) = 42
            /\ CurrentRun = (lead + 1)..(lead + RequestedLength)
            /\ \A k \in 1..lead :
                  CalendarDayOf(days[k].date)
                      = <<BeforeRequested[1], BeforeRequested[2],
                          BeforeRequested[3] - (lead - k)>>
            /\ \A j \in 1..rest :
                  CalendarDayOf(days[lead + RequestedLength + j].date)
                      = <<AfterRequested[1], AfterRequested[2], j>>

------------------------------------------------------------------------\* The day number of a Date's calendar day.
DayOf(date) == DayNumber(date.year, date.month, date.date)

\* a is not later than b.
NotAfter(a, b) == DayOf(a) < DayOf(b) \/ (DayOf(a) = DayOf(b) /\ a.ms <= b.ms)

\* What the date helpers of the called class return.
AddDaysOf(impl, date, delta) ==
    IF impl = "TimezoneService"
    THEN addDays(date, delta).result
    ELSE CM_addDays(date, delta).result
StartOfDayOf(impl, date) ==
    IF impl = "TimezoneService"
    THEN startOfDay(date).result
    ELSE CM_startOfDay(date).result
EndOfDayOf(impl, date) ==
    IF impl = "TimezoneService"
    THEN endOfDay(date).result
    ELSE CM_endOfDay(date).result

\* Second steps taken after a first addDays.
SecondDeltas == {-366, -31, -1, 0, 1, 29, 365}

\* C11: addDays(date, n) returns a date whose calendar day is exactly n days
\* after date's, across month ends, year ends and leap days, and leaves date
\* unchanged; addDays(addDays(d, n), -n) is the day of d, and
\* addDays(addDays(d, a), b) is the day of addDays(d, a + b).
C11_AddDays ==
    call.op = "addDays" =>
        /\ DayOf(ret) = DayOf(call.d1) + call.n
        /\ arg = call.d1
        /\ CalendarDayOf(AddDaysOf(call.impl, ret, 0 - call.n))
              = CalendarDayOf(call.d1)
        /\ \A b \in SecondDeltas :
              CalendarDayOf(AddDaysOf(call.impl, ret, b))
                  = CalendarDayOf(AddDaysOf(call.impl, call.d1, call.n + b))

\* Two days after 28 February 2024 is 1 March: the leap day is counted.
C11_Witness ==
    /\ call.op = "addDays"
    /\ CalendarDayOf(call.d1) = <<2024, 1, 28>> /\ call.n = 2
    /\ CalendarDayOf(ret) = <<2024, 2, 1>>
    /\ arg = call.d1

\* C12: startOfDay(d) and endOfDay(d) return values on the calendar day of d
\* at 00:00:00.000 and 23:59:59.999, so startOfDay(d) <= d <= endOfDay(d);
\* both are idempotent and neither changes d.
C12_StartEndOfDay ==
    /\ call.op = "startOfDay" =>
          /\ CalendarDayOf(ret) = CalendarDayOf(call.d1)
          /\ ret.ms = 0
          /\ NotAfter(ret, call.d1)
          /\ StartOfDayOf(call.impl, ret) = ret
          /\ arg = call.d1
    /\ call.op = "endOfDay" =>
          /\ CalendarDayOf(ret) = CalendarDayOf(call.d1)
          /\ ret.ms = 86399999
          /\ NotAfter(call.d1, ret)
          /\ NotAfter(StartOfDayOf(call.impl, call.d1), ret)
          /\ EndOfDayOf(call.impl, ret) = ret
          /\ arg = call.d1

\* endOfDay of a date-time one second after midnight.
C12_Witness ==
    /\ call.op = "endOfDay"
    /\ call.d1.ms = 1000
    /\ ret.ms = 86399999
    /\ CalendarDayOf(ret) = CalendarDayOf(call.d1)

\* The later and the earlier of two date-times, and the number of whole
\* 24-hour days between them.
LaterOf(a, b) == IF NotAfter(b, a) THEN a ELSE b
EarlierOf(a, b) == IF NotAfter(b, a) THEN b ELSE a
WholeDaysApart(a, b) ==
    (DayOf(LaterOf(a, b)) - DayOf(EarlierOf(a, b)))
        - (IF LaterOf(a, b).ms < EarlierOf(a, b).ms THEN 1 ELSE 0)

\* More than a whole number of days apart.
MoreThanDaysApart(a, b, n) ==
    \/ WholeDaysApart(a, b) > n
    \/ WholeDaysApart(a, b) = n /\ LaterOf(a, b).ms # EarlierOf(a, b).ms

\* C13: formatRelativeTime returns relative phrasing only for a date fewer
\* than 7 days from now, returns a calendar date for every date 7 or more
\* days from now, past or future, and adds the year only when the date is
\* more than 365 days from now.
C13_RelativeTime ==
    call.op = "formatRelativeTime" =>
        /\ phrase.kind = "relative"
              => WholeDaysApart(call.d1, call.today) < 7
        /\ WholeDaysApart(call.d1, call.today) >= 7 => phrase.kind = "date"
        /\ (phrase.kind = "date" /\ phrase.options.year = "numeric")
              => MoreThanDaysApart(call.d1, call.today, 365)

\* C14: in every grid the entry at 0-based index i has dayOfWeek i mod 7:
\* the first entry is a Sunday, the last a Saturday, and each row of 7 runs
\* from Sunday to Saturday.
C14_DayOfWeekByIndex ==
    IsGrid =>
        \A i \in 1..Len(days) : days[i].dayOfWeek = (i - 1) % 7

\* C15: for every year, every month in 0..11 and the same `now`,
\* TimezoneService.getCalendarDays and CalendarManager.getCalendarDays (with
\* DateFormatter.formatDateToString) return the same 42 entries, field for
\* field.
C15_BuildersAgree ==
    IsGrid /\ MonthInRange =>
        /\ days = getCalendarDays(call.year, call.month, call.today)
        /\ days = CM_getCalendarDays(call.year, call.month, call.today)

-----------------------------------------------------------------------------
(* What holds away from the failing inputs of C2, C5, C6, C7, C10, C13,    *)
(* C14 and C15.                                                            *)

\* A year the Date constructor takes as it is, and whose neighbours it
\* takes as they are too.
AboveTwoDigitYears == call.year > 100

\* Consecutive days (C2) for years above 100, out-of-range months included.
ConsecutiveDays_AboveTwoDigitYears ==
    AboveTwoDigitYears => C2_ConsecutiveDays

\* Filler month and year (C5) for years above 100.
FillerMonthYear_AboveTwoDigitYears ==
    AboveTwoDigitYears => C5_FillerMonthYear

\* Filler counts and days (C10) for years above 100.
FillerCounts_AboveTwoDigitYears ==
    AboveTwoDigitYears => C10_FillerCounts

\* Out-of-range months (C6) in CalendarManager, for years above 100.
OutOfRangeMonthNormalized_CalendarManager ==
    AboveTwoDigitYears /\ call.impl = "CalendarManager"
        => C6_OutOfRangeMonthNormalized

\* Self-consistent entries (C7) for months 0..11 of four-digit years.
EntrySelfConsistent_InRange ==
    call.year >= 1000 /\ MonthInRange => C7_EntrySelfConsistent

\* Relative time (C13) for dates that are not in the future, and for
\* DateFormatter.
RelativeTime_NotInFuture ==
    NotAfter(call.d1, call.today) => C13_RelativeTime
RelativeTime_DateFormatter ==
    call.impl = "DateFormatter" => C13_RelativeTime

\* Day of week by index (C14) for years above 100, out-of-range months
\* included.
DayOfWeekByIndex_AboveTwoDigitYears ==
    AboveTwoDigitYears => C14_DayOfWeekByIndex

\* The two builders agree (C15) for years above 100.
BuildersAgree_AboveTwoDigitYears ==
    AboveTwoDigitYears => C15_BuildersAgree

-----------------------------------------------------------------------------
(* Sanity of the Date model against known calendar facts.                  *)

DateModelFacts ==
    /\ GetDay(NewDate(2024, 0, 1)) = 1
    /\ GetDay(NewDate(1970, 0, 1)) = 4
    /\ GetDay(NewDate(2000, 1, 29)) = 2
    /\ NewDate(2024, 12, 1) = At(2025, 0, 1, 0)
    /\ NewDate(2024, -1, 1) = At(2023, 11, 1, 0)
    /\ NewDate(2024, 2, 0) = At(2024, 1, 29, 0)
    /\ NewDate(99, 11, 31) = At(1999, 11, 31, 0)
    /\ NewDate(100, 0, 1) = At(100, 0, 1, 0)
    /\ formatDateToString(NewDate(2024, 0, 5)) = "2024-01-05"

====
